---- MODULE Spec2Model ----
(***************************************************************************)
(* clifford_trajectory (attractors.ipynb, code cell 1) as a state machine. *)
(*                                                                         *)
(* Each invocation of the function is a process with a program counter     *)
(* that names the source line it executes next (l25 .. l30), its seven     *)
(* arguments, its two local buffers xs and ys, and the position of the     *)
(* for-loop's iterator.  Invocations of different callers interleave line  *)
(* by line.  What a caller sees is `out`: bound only by the return.        *)
(*                                                                         *)
(* float64 values are modelled as decimal fixed-point numbers with Scale   *)
(* units per 1.0, plus NaN.  np.sin and np.cos are computed (range         *)
(* reduction to a quadrant and a Taylor polynomial), not assumed.          *)
(***************************************************************************)
EXTENDS Integers, Sequences, FiniteSets

(* ------------------------------------------------------------------ *)
(* float64                                                             *)
(* ------------------------------------------------------------------ *)

\* Fixed-point resolution: the integer v stands for the real v / Scale.
Scale == 10000

\* pi/2 in units of 1/Scale.
HalfPi == 15708

Pi == 2 * HalfPi

TwoPi == 4 * HalfPi

NaN == [nan |-> TRUE, v |-> 0]

Fin(v) == [nan |-> FALSE, v |-> v]

IsNaN(f) == f.nan

\* p / q rounded to the nearest integer (q > 0).
RoundDiv(p, q) == (2 * p + q) \div (2 * q)

\* Product of two fixed-point integers.
MulI(u, w) == RoundDiv(u * w, Scale)

\* sin on [0, pi/2], the Taylor polynomial of degree 9 in Horner form,
\* t (1 - t^2/6 (1 - t^2/20 (1 - t^2/42 (1 - t^2/72)))), saturated at 1.
SinQuadrant(t) ==
    LET t2 == MulI(t, t)
        h4 == Scale - RoundDiv(t2, 72)
        h3 == Scale - RoundDiv(MulI(t2, h4), 42)
        h2 == Scale - RoundDiv(MulI(t2, h3), 20)
        h1 == Scale - RoundDiv(MulI(t2, h2), 6)
        s  == MulI(t, h1)
    IN  IF s > Scale THEN Scale ELSE s

\* sin of a fixed-point integer: reduce modulo 2 pi, then by quadrant.
SinI(t) ==
    LET r == t % TwoPi
    IN  IF r <= HalfPi THEN SinQuadrant(r)
        ELSE IF r <= Pi THEN SinQuadrant(Pi - r)
        ELSE IF r <= Pi + HalfPi THEN -SinQuadrant(r - Pi)
        ELSE -SinQuadrant(TwoPi - r)

\* float64 `*`: NaN if either operand is NaN.
FMul(f, g) == IF f.nan \/ g.nan THEN NaN ELSE Fin(MulI(f.v, g.v))

\* float64 `+`: NaN if either operand is NaN.
FAdd(f, g) == IF f.nan \/ g.nan THEN NaN ELSE Fin(f.v + g.v)

\* np.sin: NaN in, NaN out.
FSin(f) == IF f.nan THEN NaN ELSE Fin(SinI(f.v))

\* np.cos: NaN in, NaN out; cos t = sin (t + pi/2).
FCos(f) == IF f.nan THEN NaN ELSE Fin(SinI(f.v + HalfPi))

(* ------------------------------------------------------------------ *)
(* Inputs                                                              *)
(* ------------------------------------------------------------------ *)

\* Largest sample count a caller passes.
MaxN == 3

\* The smallest is -1: n = 0 and n < 0 take different paths.
NSet == (-1) .. MaxN

\* The coefficient sets the notebook uses: clifford_plot's defaults
\* (1.9, 1.9, 1.9, 0.8) and the call of cell 3 (1.7, 1.7, 0.6, 1.2).
CoefSet ==
    { [a |-> Fin(19000), b |-> Fin(19000), c |-> Fin(19000), d |-> Fin(8000)],
      [a |-> Fin(17000), b |-> Fin(17000), c |-> Fin(6000), d |-> Fin(12000)] }

\* Starting points: the origin clifford_plot passes, a NaN and an off-origin y0.
X0Set == {Fin(0), NaN}

Y0Set == {Fin(0), Fin(5000)}

ArgSet ==
    { [a |-> k.a, b |-> k.b, c |-> k.c, d |-> k.d, x0 |-> x, y0 |-> y, n |-> m] :
        k \in CoefSet, x \in X0Set, y \in Y0Set, m \in NSet }

\* Concurrent callers.
Inv == {1, 2}

(* ------------------------------------------------------------------ *)
(* State, per invocation                                               *)
(* ------------------------------------------------------------------ *)

VARIABLES
    pc,       \* "idle", the line executed next ("l25" .. "l30"), "done", "failed"
    args,     \* the arguments a, b, c, d, x0, y0, n
    xs, ys,   \* the local buffers
    pos,      \* how many elements of np.arange(n-1) the for loop has taken
    visited,  \* the values of i whose iteration has completed, in order
    filled,   \* the indices of xs and of ys that a store has written
    oob,      \* a store was performed outside the bounds of its buffer
    err,      \* the exception raised, "none" if none
    out       \* what the caller has received

vars == <<pc, args, xs, ys, pos, visited, filled, oob, err, out>>

(* ------------------------------------------------------------------ *)
(* numpy                                                               *)
(* ------------------------------------------------------------------ *)

\* An array is a function on 0 .. len-1.
Size(X) == Cardinality(DOMAIN X)

\* An allocation one element too long.
np_zeros_extra(n) == [j \in 0 .. n |-> Fin(0)]

\* np.zeros(n) for n >= 0: n zeros.
np_zeros(n) == [j \in 0 .. (n - 1) |-> Fin(0)]

\* A range that stops one element early.
np_arange_short(m) == [k \in 1 .. (m - 1) |-> k - 1]

\* A range that starts at 1.
np_arange_from1(m) == [k \in 1 .. (m - 1) |-> k]

\* np.arange(m): the sequence 0, 1, .., m-1; empty when m <= 0.
np_arange(m) == [k \in 1 .. m |-> k - 1]

\* X[k] = v for k in range.  An out-of-range store does not change X.
Store(X, k, v) == [j \in DOMAIN X |-> IF j = k THEN v ELSE X[j]]

\* What a store at index k can do.  nopython code is compiled without bounds
\* checks: an out-of-range store either raises IndexError (bounds checking
\* switched on, or the jit disabled) or is performed unchecked, outside X.
StoreOutcomes(X, k) ==
    IF k \in DOMAIN X THEN {"ok"} ELSE {"IndexError", "unchecked"}

(* ------------------------------------------------------------------ *)
(* The statements of clifford_trajectory                               *)
(* ------------------------------------------------------------------ *)

\* A store statement: the index it writes and the value it writes there.
Write(k, v) == [k |-> k, v |-> v]

\* Line 26 with a NaN starting point replaced by 0.
Stmt26Sanitised(A) ==
    <<Write(0, IF A.x0.nan THEN Fin(0) ELSE A.x0), Write(0, IF A.y0.nan THEN Fin(0) ELSE A.y0)>>

\* Line 26: xs[0], ys[0] = x0, y0.  The store into xs, then the store into ys.
Stmt26(A) == <<Write(0, A.x0), Write(0, A.y0)>>

\* Line 28 storing at index i instead of i+1.
Stmt28InPlace(A, X, Y, i) ==
    Write(i, FAdd(FSin(FMul(A.a, Y[i])), FMul(A.c, FCos(FMul(A.a, X[i])))))

\* Line 28 reading y from a buffer shared by all invocations (invocation 1's)
\* instead of its own.
Stmt28Shared(A, X, Y, i) ==
    LET G == IF i \in DOMAIN ys[1] THEN ys[1] ELSE Y
    IN  Write(i + 1, FAdd(FSin(FMul(A.a, G[i])), FMul(A.c, FCos(FMul(A.a, X[i])))))

\* Line 28: xs[i+1] = np.sin(a * ys[i]) + c * np.cos(a * xs[i])
Stmt28(A, X, Y, i) ==
    Write(i + 1, FAdd(FSin(FMul(A.a, Y[i])), FMul(A.c, FCos(FMul(A.a, X[i])))))

\* Line 29 reading the x that line 28 has just stored, xs[i+1].
Stmt29Stale(A, X, Y, i) ==
    Write(i + 1, FAdd(FSin(FMul(A.b, X[i + 1])), FMul(A.d, FCos(FMul(A.b, Y[i])))))

\* Line 29 with b and d exchanged.
Stmt29Swapped(A, X, Y, i) ==
    Write(i + 1, FAdd(FSin(FMul(A.d, X[i])), FMul(A.b, FCos(FMul(A.d, Y[i])))))

\* Line 29: ys[i+1] = np.sin(b * xs[i]) + d * np.cos(b * ys[i])
Stmt29(A, X, Y, i) ==
    Write(i + 1, FAdd(FSin(FMul(A.b, X[i])), FMul(A.d, FCos(FMul(A.b, Y[i])))))

NoArgs == [a |-> NaN, b |-> NaN, c |-> NaN, d |-> NaN, x0 |-> NaN, y0 |-> NaN, n |-> 0]

\* No array: a name that is not bound.
Unbound == np_zeros(0)

NoResult == [bound |-> FALSE, X |-> Unbound, Y |-> Unbound]

Result(X, Y) == [bound |-> TRUE, X |-> X, Y |-> Y]

NoneFilled == [x |-> {}, y |-> {}]

Init ==
    /\ pc = [t \in Inv |-> "idle"]
    /\ args = [t \in Inv |-> NoArgs]
    /\ xs = [t \in Inv |-> Unbound]
    /\ ys = [t \in Inv |-> Unbound]
    /\ pos = [t \in Inv |-> 0]
    /\ visited = [t \in Inv |-> <<>>]
    /\ filled = [t \in Inv |-> NoneFilled]
    /\ oob = [t \in Inv |-> FALSE]
    /\ err = [t \in Inv |-> "none"]
    /\ out = [t \in Inv |-> NoResult]

\* Line 24 / line 57: a caller invokes clifford_trajectory(a, b, c, d, x0, y0, n).
\* The frame is fresh: nothing of an earlier invocation is kept.
Call(t) ==
    /\ pc[t] \in {"idle", "done", "failed"}
    /\ \E A \in ArgSet : args' = [args EXCEPT ![t] = A]
    /\ pc' = [pc EXCEPT ![t] = "l25"]
    /\ xs' = [xs EXCEPT ![t] = Unbound]
    /\ ys' = [ys EXCEPT ![t] = Unbound]
    /\ pos' = [pos EXCEPT ![t] = 0]
    /\ visited' = [visited EXCEPT ![t] = <<>>]
    /\ filled' = [filled EXCEPT ![t] = NoneFilled]
    /\ oob' = [oob EXCEPT ![t] = FALSE]
    /\ err' = [err EXCEPT ![t] = "none"]
    /\ out' = [out EXCEPT ![t] = NoResult]

\* Line 25: xs, ys = np.zeros(n), np.zeros(n).  A negative n raises ValueError.
Line25(t) ==
    /\ pc[t] = "l25"
    /\ IF args[t].n < 0
       THEN /\ pc' = [pc EXCEPT ![t] = "failed"]
            /\ err' = [err EXCEPT ![t] = "ValueError"]
            /\ UNCHANGED <<xs, ys>>
       ELSE /\ pc' = [pc EXCEPT ![t] = "l26"]
            /\ xs' = [xs EXCEPT ![t] = np_zeros(args[t].n)]
            /\ ys' = [ys EXCEPT ![t] = np_zeros(args[t].n)]
            /\ UNCHANGED err
    /\ UNCHANGED <<args, pos, visited, filled, oob, out>>

\* Line 26: xs[0], ys[0] = x0, y0.  With n = 0 index 0 is out of range.
Line26(t) ==
    /\ pc[t] = "l26"
    /\ LET wx == Stmt26(args[t])[1]
           wy == Stmt26(args[t])[2]
       IN  \E o \in StoreOutcomes(xs[t], wx.k) \cup StoreOutcomes(ys[t], wy.k) :
             IF o = "IndexError"
             THEN /\ pc' = [pc EXCEPT ![t] = "failed"]
                  /\ err' = [err EXCEPT ![t] = "IndexError"]
                  /\ UNCHANGED <<xs, ys, filled, oob>>
             ELSE /\ pc' = [pc EXCEPT ![t] = "l27"]
                  /\ xs' = [xs EXCEPT ![t] = Store(@, wx.k, wx.v)]
                  /\ ys' = [ys EXCEPT ![t] = Store(@, wy.k, wy.v)]
                  /\ filled' = [filled EXCEPT ![t] =
                                   [x |-> {wx.k} \cap DOMAIN xs[t],
                                    y |-> {wy.k} \cap DOMAIN ys[t]]]
                  /\ oob' = [oob EXCEPT ![t] = @ \/ (o = "unchecked")]
                  /\ UNCHANGED err
    /\ UNCHANGED <<args, pos, visited, out>>

\* Line 27: for i in np.arange(n-1): the next element, or the end of the loop.
Line27(t) ==
    /\ pc[t] = "l27"
    /\ IF pos[t] < Len(np_arange(args[t].n - 1))
       THEN /\ pc' = [pc EXCEPT ![t] = "l28"]
            /\ pos' = [pos EXCEPT ![t] = pos[t] + 1]
       ELSE /\ pc' = [pc EXCEPT ![t] = "l30"]
            /\ UNCHANGED pos
    /\ UNCHANGED <<args, xs, ys, visited, filled, oob, err, out>>

\* The loop variable i during an iteration.
LoopVar(t) == np_arange(args[t].n - 1)[pos[t]]

\* Line 28: xs[i+1] = np.sin(a * ys[i]) + c * np.cos(a * xs[i])
Line28(t) ==
    /\ pc[t] = "l28"
    /\ LET w == Stmt28(args[t], xs[t], ys[t], LoopVar(t))
       IN  \E o \in StoreOutcomes(xs[t], w.k) :
             IF o = "IndexError"
             THEN /\ pc' = [pc EXCEPT ![t] = "failed"]
                  /\ err' = [err EXCEPT ![t] = "IndexError"]
                  /\ UNCHANGED <<xs, filled, oob>>
             ELSE /\ pc' = [pc EXCEPT ![t] = "l29"]
                  /\ xs' = [xs EXCEPT ![t] = Store(@, w.k, w.v)]
                  /\ filled' = [filled EXCEPT ![t].x = @ \cup ({w.k} \cap DOMAIN xs[t])]
                  /\ oob' = [oob EXCEPT ![t] = @ \/ (o = "unchecked")]
                  /\ UNCHANGED err
    /\ UNCHANGED <<args, ys, pos, visited, out>>

\* Line 29: ys[i+1] = np.sin(b * xs[i]) + d * np.cos(b * ys[i]); the iteration ends.
Line29(t) ==
    /\ pc[t] = "l29"
    /\ LET w == Stmt29(args[t], xs[t], ys[t], LoopVar(t))
       IN  \E o \in StoreOutcomes(ys[t], w.k) :
             IF o = "IndexError"
             THEN /\ pc' = [pc EXCEPT ![t] = "failed"]
                  /\ err' = [err EXCEPT ![t] = "IndexError"]
                  /\ UNCHANGED <<ys, filled, oob, visited>>
             ELSE /\ pc' = [pc EXCEPT ![t] = "l27"]
                  /\ ys' = [ys EXCEPT ![t] = Store(@, w.k, w.v)]
                  /\ filled' = [filled EXCEPT ![t].y = @ \cup ({w.k} \cap DOMAIN ys[t])]
                  /\ oob' = [oob EXCEPT ![t] = @ \/ (o = "unchecked")]
                  /\ visited' = [visited EXCEPT ![t] = Append(@, LoopVar(t))]
                  /\ UNCHANGED err
    /\ UNCHANGED <<args, xs, pos, out>>

\* Line 30: return xs, ys.  The caller's names are bound here and only here.
Line30(t) ==
    /\ pc[t] = "l30"
    /\ pc' = [pc EXCEPT ![t] = "done"]
    /\ out' = [out EXCEPT ![t] = Result(xs[t], ys[t])]
    /\ UNCHANGED <<args, xs, ys, pos, visited, filled, oob, err>>

Run(t) == Line25(t) \/ Line26(t) \/ Line27(t) \/ Line28(t) \/ Line29(t) \/ Line30(t)

Next == \E t \in Inv : Call(t) \/ Run(t)

Spec == Init /\ [][Next]_vars

\* One caller, one invocation at a time.
NextSolo == Call(1) \/ Run(1)

\* The function is synchronous and never suspends: once called, its next line
\* is eventually executed.
SpecSolo == Init /\ [][NextSolo]_vars /\ WF_vars(Run(1))

(* ------------------------------------------------------------------ *)
(* clifford_plot's default coefficients, 1000 samples                  *)
(* ------------------------------------------------------------------ *)

\* a = 1.9, b = 1.9, c = 1.9, d = 0.8 (line 55), x0 = y0 = 0 (line 57), n = 1000.
Scenario ==
    [a |-> Fin(19000), b |-> Fin(19000), c |-> Fin(19000), d |-> Fin(8000),
     x0 |-> Fin(0), y0 |-> Fin(0), n |-> 1000]

\* Invocation 1 has been called with the scenario's arguments.
InitScenario ==
    /\ pc = [t \in Inv |-> IF t = 1 THEN "l25" ELSE "idle"]
    /\ args = [t \in Inv |-> IF t = 1 THEN Scenario ELSE NoArgs]
    /\ xs = [t \in Inv |-> Unbound]
    /\ ys = [t \in Inv |-> Unbound]
    /\ pos = [t \in Inv |-> 0]
    /\ visited = [t \in Inv |-> <<>>]
    /\ filled = [t \in Inv |-> NoneFilled]
    /\ oob = [t \in Inv |-> FALSE]
    /\ err = [t \in Inv |-> "none"]
    /\ out = [t \in Inv |-> NoResult]

NextScenario == Run(1)

SpecScenario == InitScenario /\ [][NextScenario]_vars

(* ------------------------------------------------------------------ *)
(* The function run alone                                              *)
(* ------------------------------------------------------------------ *)

RECURSIVE Iterate(_, _, _, _)
\* Iterations i, i+1, .., n-2 of the loop of lines 27-29, then the return.
Iterate(A, X, Y, i) ==
    IF i >= A.n - 1
    THEN Result(X, Y)
    ELSE LET wx == Stmt28(A, X, Y, i)
             X1 == Store(X, wx.k, wx.v)
             wy == Stmt29(A, X1, Y, i)
             Y1 == Store(Y, wy.k, wy.v)
         IN  Iterate(A, X1, Y1, i + 1)

\* What clifford_trajectory returns for arguments A (n >= 1) with nothing
\* else running.
Alone(A) ==
    Iterate(A, Store(np_zeros(A.n), Stmt26(A)[1].k, Stmt26(A)[1].v),
               Store(np_zeros(A.n), Stmt26(A)[2].k, Stmt26(A)[2].v), 0)

(* ------------------------------------------------------------------ *)
(* Properties                                                          *)
(* ------------------------------------------------------------------ *)

Abs(v) == IF v < 0 THEN -v ELSE v

Returned(t) == pc[t] = "done"

Started(t) == pc[t] /= "idle"

FiniteCoefficients(A) == ~A.a.nan /\ ~A.b.nan /\ ~A.c.nan /\ ~A.d.nan

\* C1 (recurrence law).  Whenever a call with n >= 1 has returned X and Y,
\* for every i in 0 .. n-2: X[i+1] = sin(a Y[i]) + c cos(a X[i]) and
\* Y[i+1] = sin(b X[i]) + d cos(b Y[i]), both from the values at index i.
\* (Equality is equality of values: a NaN equals a NaN.)
RecurrenceLaw ==
    \A t \in Inv :
        Returned(t) /\ args[t].n >= 1 =>
            LET A == args[t]
                X == out[t].X
                Y == out[t].Y
            IN  /\ out[t].bound
                /\ \A i \in 0 .. (A.n - 2) :
                     /\ X[i + 1] = FAdd(FSin(FMul(A.a, Y[i])), FMul(A.c, FCos(FMul(A.a, X[i]))))
                     /\ Y[i + 1] = FAdd(FSin(FMul(A.b, X[i])), FMul(A.d, FCos(FMul(A.b, Y[i]))))

\* A call with n = 3 and a finite start has returned, and X[1] differs from
\* X[0]: reading the wrong one of them would show.
RecurrenceWitness ==
    \E t \in Inv :
        /\ Returned(t) /\ args[t].n = 3
        /\ ~args[t].x0.nan
        /\ out[t].X[1] /= out[t].X[0]
        /\ out[t].Y[2] /= out[t].Y[1]

\* C2 (length invariant).  Whenever a call with n >= 1 has returned X and Y,
\* both have exactly n elements.
LengthInvariant ==
    \A t \in Inv :
        Returned(t) /\ args[t].n >= 1 =>
            /\ out[t].bound
            /\ Size(out[t].X) = args[t].n
            /\ Size(out[t].Y) = args[t].n

\* Two calls with different n >= 1 have returned, each with its own length.
LengthWitness ==
    \E t, u \in Inv :
        /\ Returned(t) /\ Returned(u)
        /\ args[t].n = 1 /\ args[u].n = 3
        /\ Size(out[t].X) = 1 /\ Size(out[u].Y) = 3

\* C3 (initial value).  From the store of line 26 on, index 0 of xs and ys
\* holds x0 and y0, through every loop iteration and in the returned X, Y.
InitialValuePreserved ==
    \A t \in Inv :
        args[t].n >= 1 =>
            /\ pc[t] \in {"l27", "l28", "l29", "l30", "done"} =>
                   xs[t][0] = args[t].x0 /\ ys[t][0] = args[t].y0
            /\ Returned(t) => out[t].X[0] = args[t].x0 /\ out[t].Y[0] = args[t].y0

\* A call whose loop ran twice has returned and index 0 still holds the start,
\* which differs from what the loop stored at index 1.
InitialValueWitness ==
    \E t \in Inv :
        /\ Returned(t) /\ Len(visited[t]) = 2
        /\ out[t].X[0] = args[t].x0 /\ out[t].Y[0] = args[t].y0
        /\ out[t].X[1] /= args[t].x0

\* C4 (n < 1).  A call with n < 1 raises nothing and stores nothing out of
\* range, and what it returns has at most one element.
NonPositiveCountHandled ==
    \A t \in Inv :
        Started(t) /\ args[t].n < 1 =>
            /\ pc[t] /= "failed"
            /\ ~oob[t]
            /\ Returned(t) => Size(out[t].X) <= 1 /\ Size(out[t].Y) <= 1

\* C5 (no partial result).  The caller holds a result only once the call has
\* returned, and then every index 0 .. n-1 of both buffers has been stored;
\* at every other moment, a failure included, the caller holds nothing.
NoPartialResult ==
    \A t \in Inv :
        /\ out[t].bound =>
               /\ Returned(t)
               /\ out[t] = Result(xs[t], ys[t])
               /\ DOMAIN out[t].X = 0 .. (args[t].n - 1)
               /\ DOMAIN out[t].Y = 0 .. (args[t].n - 1)
               /\ filled[t].x = 0 .. (args[t].n - 1)
               /\ filled[t].y = 0 .. (args[t].n - 1)
        /\ ~Returned(t) => out[t] = NoResult

\* One call is in the middle of an iteration, its buffers partly filled, the
\* other has failed, and neither caller holds anything.
NoPartialResultWitness ==
    \E t, u \in Inv :
        /\ pc[t] = "l29" /\ args[t].n = 3
        /\ filled[t].x = {0, 1} /\ filled[t].y = {0}
        /\ pc[u] = "failed"
        /\ ~out[t].bound /\ ~out[u].bound

\* The values of invocation t's X and Y: what its buffers hold, which is what
\* line 30 returns, and what the caller has received.
AllWithin(t, bx, by) ==
    /\ \A i \in DOMAIN xs[t] :
         /\ ~xs[t][i].nan /\ Abs(xs[t][i].v) <= bx
         /\ ~ys[t][i].nan /\ Abs(ys[t][i].v) <= by
    /\ \A i \in DOMAIN out[t].X :
         /\ ~out[t].X[i].nan /\ Abs(out[t].X[i].v) <= bx
         /\ ~out[t].Y[i].nan /\ Abs(out[t].Y[i].v) <= by

\* C6 as stated (boundedness).  With a = b = c = 1.9, d = 0.8, x0 = y0 = 0 and
\* n = 1000 every value of X and Y lies in [-2, 2].
BoundedByTwo ==
    \A t \in Inv :
        Started(t) /\ args[t] = Scenario => AllWithin(t, 2 * Scale, 2 * Scale)

\* C6 as amended.  With the same arguments every value of X lies in
\* [-(1 + |c|), 1 + |c|] = [-2.9, 2.9] and every value of Y in
\* [-(1 + |d|), 1 + |d|] = [-1.8, 1.8].
BoundedByCoefficients ==
    \A t \in Inv :
        Started(t) /\ args[t] = Scenario =>
            AllWithin(t, Scale + Abs(args[t].c.v), Scale + Abs(args[t].d.v))

\* The scenario's call has stored X[8], which is below -2, and X[10], which
\* is above 2.
BoundedWitness ==
    \E t \in Inv :
        /\ args[t] = Scenario /\ Size(xs[t]) = 1000
        /\ 10 \in filled[t].x
        /\ xs[t][8].v < -2 * Scale
        /\ xs[t][10].v > 2 * Scale

\* C7 (determinism).  Any two calls with the same arguments, n >= 1, that
\* have returned hold the same X and Y, whatever each caller ran before and
\* whatever ran meanwhile.
Determinism ==
    \A t, u \in Inv :
        Returned(t) /\ Returned(u) /\ args[t] = args[u] /\ args[t].n >= 1 =>
            out[t] = out[u]

\* Two callers have returned from calls with the same arguments, n = 3 and a
\* finite trajectory.
DeterminismWitness ==
    \E t, u \in Inv :
        /\ t /= u
        /\ Returned(t) /\ Returned(u)
        /\ args[t] = args[u] /\ args[t].n = 3
        /\ ~out[t].X[2].nan
        /\ out[u].bound

\* No store of invocation t has gone outside its own buffers.
StoresOnlyOwnBuffers(t) == ~oob[t]

\* What invocation t returned is what its arguments give run alone.
ReturnsAsAlone(t) == Returned(t) /\ args[t].n >= 1 => out[t] = Alone(args[t])

\* C8 (independence).  Under every interleaving each invocation stores only
\* into its own buffers, and what it returns is what it returns run alone.
Independence == \A t \in Inv : StoresOnlyOwnBuffers(t) /\ ReturnsAsAlone(t)

\* The second half of C8 alone.
IndependentResults == \A t \in Inv : ReturnsAsAlone(t)

\* C9 (NaN propagation).  A call with x0 = NaN, finite coefficients and n = 3
\* does not fail, and it returns X[1], Y[1], X[2], Y[2] all NaN.
NaNPropagates ==
    \A t \in Inv :
        Started(t) /\ args[t].x0.nan /\ FiniteCoefficients(args[t]) /\ args[t].n = 3 =>
            /\ pc[t] /= "failed"
            /\ Returned(t) =>
                   /\ out[t].bound
                   /\ IsNaN(out[t].X[1]) /\ IsNaN(out[t].Y[1])
                   /\ IsNaN(out[t].X[2]) /\ IsNaN(out[t].Y[2])

\* Such a call has returned, with a finite y0.
NaNWitness ==
    \E t \in Inv :
        /\ Returned(t) /\ args[t].n = 3
        /\ args[t].x0.nan /\ ~args[t].y0.nan
        /\ IsNaN(out[t].Y[2])

\* The iterations completed so far are 0, 1, .., in this order, at most n-1.
InOrder(t) ==
    /\ Len(visited[t]) <= args[t].n - 1
    /\ \A k \in 1 .. Len(visited[t]) : visited[t][k] = k - 1

\* C10 (termination, step count).  A call with n >= 1 executes iterations
\* i = 0, 1, .. in increasing order, has executed exactly n-1 of them when it
\* returns, returns ([x0], [y0]) for n = 1, and does return.
TerminatesAfterNMinus1Steps ==
    /\ [](\A t \in Inv :
            Started(t) /\ args[t].n >= 1 =>
                /\ pc[t] /= "failed"
                /\ InOrder(t)
                /\ Returned(t) => Len(visited[t]) = args[t].n - 1
                /\ Returned(t) /\ args[t].n = 1 =>
                       /\ Len(visited[t]) = 0
                       /\ out[t] = Result([j \in {0} |-> args[t].x0],
                                          [j \in {0} |-> args[t].y0]))
    /\ \A t \in Inv : (pc[t] = "l25" /\ args[t].n >= 1) ~> Returned(t)

\* A call with n = 3 has returned after iterations 0 and 1.
StepCountWitness ==
    \E t \in Inv :
        /\ Returned(t) /\ args[t].n = 3 /\ visited[t] = <<0, 1>>
        /\ Size(out[t].X) = 3

====
